---- MODULE Spec2Model ----
(***************************************************************************)
(* Model of birthday_display: the CSV record loader (csv.rs), the display  *)
(* model BirthdayDisplay with its day matching and photo result            *)
(* application, and the asynchronous photo fetch tasks (main.rs).          *)
(***************************************************************************)
EXTENDS Integers, Sequences, FiniteSets, TLC

\* Bounds of the model.
MaxRows == 2        \* rows of the input file
MaxDays == 1        \* midnights the clock passes during a run

----------------------------------------------------------------------------
\* Option<T> and Result<T, E>.
None == <<>>
Some(x) == <<x>>
IsSome(o) == o # <<>>
Ok(v) == [ok |-> v]
Err(e) == [err |-> e]
IsOk(r) == "ok" \in DOMAIN r

----------------------------------------------------------------------------
\* chrono::NaiveDate: only dates of the proleptic Gregorian calendar exist.
IsLeap(y) == (y % 4 = 0 /\ y % 100 # 0) \/ y % 400 = 0

DaysInMonth(m, y) ==
    IF m = 2 THEN (IF IsLeap(y) THEN 29 ELSE 28)
    ELSE IF m \in {4, 6, 9, 11} THEN 30 ELSE 31

NaiveDate(d, m, y) == [day |-> d, month |-> m, year |-> y]

\* The calendar day after date (the clock passing midnight, UTC).
NextDay(date) ==
    IF date.day < DaysInMonth(date.month, date.year)
    THEN NaiveDate(date.day + 1, date.month, date.year)
    ELSE IF date.month < 12
    THEN NaiveDate(1, date.month + 1, date.year)
    ELSE NaiveDate(1, 1, date.year + 1)

\* custom_date_format::deserialize: the field "dd.mm.yyyy", given as its three
\* numbers, parses to a NaiveDate only when it names an existing calendar day.
parse_from_str(s) ==
    IF /\ s[2] \in 1..12
       /\ s[1] \in 1..DaysInMonth(s[2], s[3])
    THEN Ok(NaiveDate(s[1], s[2], s[3]))
    ELSE Err("input is out of range")

\* Decoding of one headerless CSV row into a Birthday: the date must parse, the
\* gender field must be exactly one character, an empty image_url field is None,
\* and image_data is skipped by the decoder and so takes its default, None.
deserialize(row) ==
    LET date == parse_from_str(row.birthday) IN
    IF ~IsOk(date) THEN Err("birthday")
    ELSE IF Len(row.gender) # 1 THEN Err("gender")
    ELSE Ok([last_name  |-> row.last_name,
             birthday   |-> date.ok,
             gender     |-> row.gender[1],
             image_url  |-> IF row.image_url = "" THEN None ELSE Some(row.image_url),
             image_data |-> None])

\* What the loader does with the diagnostic of a row that failed to decode:
\* written to the error stream, unless the quiet configuration suppresses it.
\* n is the number of diagnostics written so far.
report_parse_error(quiet, n) == IF quiet THEN n ELSE n + 1

\* The loop of get_birthdays over the remaining rows: a row that decodes is
\* pushed, a row that does not is reported and skipped (continue).
RECURSIVE read_rows(_, _, _, _)
read_rows(rows, birthdays, n, quiet) ==
    IF rows = <<>> THEN [result |-> Ok(birthdays), diagnostics |-> n]
    ELSE LET result == deserialize(Head(rows)) IN
         IF IsOk(result)
         THEN read_rows(Tail(rows), Append(birthdays, result.ok), n, quiet)
         ELSE read_rows(Tail(rows), birthdays, report_parse_error(quiet, n), quiet)

\* The same loop with break in place of continue: the first bad row ends the load.
RECURSIVE read_rows_break(_, _, _, _)
read_rows_break(rows, birthdays, n, quiet) ==
    IF rows = <<>> THEN [result |-> Ok(birthdays), diagnostics |-> n]
    ELSE LET result == deserialize(Head(rows)) IN
         IF IsOk(result)
         THEN read_rows_break(Tail(rows), Append(birthdays, result.ok), n, quiet)
         ELSE [result |-> Ok(birthdays), diagnostics |-> report_parse_error(quiet, n)]

\* The same loop reporting every row, decoded or not.
RECURSIVE read_rows_report_all(_, _, _, _)
read_rows_report_all(rows, birthdays, n, quiet) ==
    IF rows = <<>> THEN [result |-> Ok(birthdays), diagnostics |-> n]
    ELSE LET result == deserialize(Head(rows)) IN
         IF IsOk(result)
         THEN read_rows_report_all(Tail(rows), Append(birthdays, result.ok),
                                   report_parse_error(quiet, n), quiet)
         ELSE read_rows_report_all(Tail(rows), birthdays,
                                   report_parse_error(quiet, n), quiet)

\* get_birthdays: a file that cannot be opened is the only error returned.
get_birthdays_break(file, quiet) ==
    IF ~file.readable THEN [result |-> Err("open"), diagnostics |-> 0]
    ELSE read_rows_break(file.rows, <<>>, 0, quiet)

get_birthdays_report_all(file, quiet) ==
    IF ~file.readable THEN [result |-> Err("open"), diagnostics |-> 0]
    ELSE read_rows_report_all(file.rows, <<>>, 0, quiet)

get_birthdays(file, quiet) ==
    IF ~file.readable THEN [result |-> Err("open"), diagnostics |-> 0]
    ELSE read_rows(file.rows, <<>>, 0, quiet)

----------------------------------------------------------------------------
\* BirthdayDisplay::update_day: the indices, in order, of the records whose
\* birthday has the day and the month of today (birthdays_today holds Rc clones
\* of the records of all_birthdays, modelled as their indices).
RECURSIVE update_day_loop(_, _, _, _)
update_day_loop(birthdays, today, i, acc) ==
    IF i > Len(birthdays) THEN acc
    ELSE IF /\ birthdays[i].birthday.day = today.day
            /\ birthdays[i].birthday.month = today.month
         THEN update_day_loop(birthdays, today, i + 1, Append(acc, i))
         ELSE update_day_loop(birthdays, today, i + 1, acc)

\* The loop comparing the day alone.
RECURSIVE update_day_loop_day_only(_, _, _, _)
update_day_loop_day_only(birthdays, today, i, acc) ==
    IF i > Len(birthdays) THEN acc
    ELSE IF birthdays[i].birthday.day = today.day
         THEN update_day_loop_day_only(birthdays, today, i + 1, Append(acc, i))
         ELSE update_day_loop_day_only(birthdays, today, i + 1, acc)

update_day_day_only(birthdays, today) == update_day_loop_day_only(birthdays, today, 1, <<>>)

update_day(birthdays, today) == update_day_loop(birthdays, today, 1, <<>>)

----------------------------------------------------------------------------
\* The text shown in place of an image that could not be loaded.
Placeholder == "[failed to load image]"

\* Handle::from_memory: an opaque image handle owning the bytes.
Handle(bytes) == [from_memory |-> bytes]

\* What the network does to one request: whether send() yields a response,
\* whether the status of the response is a success, and whether reading its
\* body succeeds. Without a response there is neither status nor body.
Networks ==
    { n \in [send : BOOLEAN, status : BOOLEAN, body : BOOLEAN] :
        ~n.send => (~n.status /\ ~n.body) }

\* The bytes the server of url sends as the body of its response.
Bytes(url) == [body_of |-> url]

\* request_birthday_image without the status check.
request_birthday_image_no_status(net, orig_url) ==
    LET result == IF net.send
                  THEN (IF net.body THEN Ok(Bytes(orig_url)) ELSE Err("bytes"))
                  ELSE Err("send")
        image_data == IF IsOk(result) THEN Ok(Handle(result.ok)) ELSE Err(Placeholder)
    IN  <<image_data, orig_url>>

\* request_birthday_image: the pair (image_data, orig_url) the task resolves to.
request_birthday_image(net, orig_url) ==
    LET result == IF net.send
                  THEN (IF net.status
                        THEN (IF net.body THEN Ok(Bytes(orig_url)) ELSE Err("bytes"))
                        ELSE Err("status"))
                  ELSE Err("send")
        image_data == IF IsOk(result) THEN Ok(Handle(result.ok)) ELSE Err(Placeholder)
    IN  <<image_data, orig_url>>

----------------------------------------------------------------------------
\* The DataReceived arm of update, storing into the first matching record only.
RECURSIVE first_match(_, _, _)
first_match(birthdays, url, i) ==
    IF i > Len(birthdays) THEN 0
    ELSE IF birthdays[i].image_url = url THEN i ELSE first_match(birthdays, url, i + 1)

update_data_first_only(birthdays, image_data, orig_url) ==
    LET url == Some(orig_url)
        k == first_match(birthdays, url, 1)
    IN  [i \in 1..Len(birthdays) |->
            IF i = k
            THEN [birthdays[i] EXCEPT !.image_data = Some(image_data)]
            ELSE birthdays[i]]

\* The DataReceived arm of update, without the filter on the URL.
update_data_unfiltered(birthdays, image_data, orig_url) ==
    [i \in 1..Len(birthdays) |-> [birthdays[i] EXCEPT !.image_data = Some(image_data)]]

\* The DataReceived arm of update, with the filter negated.
update_data_negated(birthdays, image_data, orig_url) ==
    LET url == Some(orig_url) IN
    [i \in 1..Len(birthdays) |->
        IF birthdays[i].image_url # url
        THEN [birthdays[i] EXCEPT !.image_data = Some(image_data)]
        ELSE birthdays[i]]

\* The DataReceived arm of update: every record whose image_url is
\* Some(orig_url) has its image_data replaced by Some(image_data).
update_data(birthdays, image_data, orig_url) ==
    LET url == Some(orig_url) IN
    [i \in 1..Len(birthdays) |->
        IF birthdays[i].image_url = url
        THEN [birthdays[i] EXCEPT !.image_data = Some(image_data)]
        ELSE birthdays[i]]

----------------------------------------------------------------------------
\* new: the indices of the records with an image_url, in order.
loadable_elements(birthdays) ==
    SelectSeq([i \in 1..Len(birthdays) |-> i], LAMBDA i : IsSome(birthdays[i].image_url))

\* new: the client is built only when there is something to load; building it
\* may fail (buildable = FALSE), and .ok() turns the failure into None.
build_client(loadable, buildable) ==
    IF Len(loadable) = 0 THEN [client |-> None, built |-> "unbuilt"]
    ELSE IF buildable THEN [client |-> Some("client"), built |-> "built"]
    ELSE [client |-> None, built |-> "failed"]

\* new: one request per loadable element, whether or not there is a client.
issue_requests_without_client(birthdays, loadable, reqwest_client) ==
    [k \in 1..Len(loadable) |->
        [rec |-> loadable[k],
         url |-> birthdays[loadable[k]].image_url[1],
         st  |-> "pending", net |-> None, msg |-> None]]

\* new: a request for the first loadable element only.
issue_requests_first_only(birthdays, loadable, reqwest_client) ==
    IF IsSome(reqwest_client)
    THEN [k \in 1..1 |->
            [rec |-> loadable[k],
             url |-> birthdays[loadable[k]].image_url[1],
             st  |-> "pending", net |-> None, msg |-> None]]
    ELSE <<>>

\* new: with a client, one request per loadable element, each carrying a copy
\* of the element's URL; without one, Command::none().
issue_requests(birthdays, loadable, reqwest_client) ==
    IF IsSome(reqwest_client)
    THEN [k \in 1..Len(loadable) |->
            [rec |-> loadable[k],
             url |-> birthdays[loadable[k]].image_url[1],
             st  |-> "pending", net |-> None, msg |-> None]]
    ELSE <<>>

----------------------------------------------------------------------------
\* The rows an input file is made of.
Rows ==
    { [last_name |-> "Doe",  birthday |-> <<1, 6, 1990>>,  gender |-> <<"f">>, image_url |-> "http://x/a.jpg"],
      [last_name |-> "Moe",  birthday |-> <<1, 6, 2000>>,  gender |-> <<"m">>, image_url |-> "http://x/a.jpg"],
      [last_name |-> "Roe",  birthday |-> <<2, 6, 1985>>,  gender |-> <<"m">>, image_url |-> ""],
      [last_name |-> "Poe",  birthday |-> <<1, 7, 1990>>,  gender |-> <<"x">>, image_url |-> "http://x/b.jpg"],
      [last_name |-> "Bad",  birthday |-> <<30, 2, 1990>>, gender |-> <<"f">>, image_url |-> "http://x/a.jpg"],
      [last_name |-> "Odd",  birthday |-> <<2, 6, 1985>>,  gender |-> <<"m", "f">>, image_url |-> ""] }

RowSeqs == UNION { [1..n -> Rows] : n \in 0..MaxRows }

Files == { [readable |-> TRUE, rows |-> rs] : rs \in RowSeqs }
         \cup { [readable |-> FALSE, rows |-> <<>>] }

\* The date at which the program is started.
StartDate == NaiveDate(1, 6, 2024)

VARIABLES
    pc,               \* "start": before new; "run": event loop; "exit": process::exit
    file,             \* the input file named on the command line
    quiet,            \* the quiet configuration
    now,              \* Utc::now().date_naive()
    days,             \* midnights passed so far
    all_birthdays,    \* BirthdayDisplay.all_birthdays
    birthdays_today,  \* BirthdayDisplay.birthdays_today
    diagnostics,      \* "error reading line" diagnostics written to stderr
    client,           \* "unbuilt", "built" or "failed": Client::builder().build()
    tasks             \* the fetch tasks of the Command returned by new

vars == <<pc, file, quiet, now, days, all_birthdays, birthdays_today,
          diagnostics, client, tasks>>

Init ==
    /\ pc = "start"
    /\ file \in Files
    /\ quiet \in BOOLEAN
    /\ now = StartDate
    /\ days = 0
    /\ all_birthdays = <<>>
    /\ birthdays_today = <<>>
    /\ diagnostics = 0
    /\ client = "unbuilt"
    /\ tasks = <<>>

\* Application::new: load, prepare the requests, compute the initial subset.
new ==
    /\ pc = "start"
    /\ LET loaded == get_birthdays(file, quiet) IN
       /\ diagnostics' = loaded.diagnostics
       /\ IF ~IsOk(loaded.result)
          THEN /\ pc' = "exit"
               /\ UNCHANGED <<all_birthdays, birthdays_today, client, tasks>>
          ELSE \E buildable \in BOOLEAN :
               LET birthdays == loaded.result.ok
                   loadable == loadable_elements(birthdays)
                   built == build_client(loadable, buildable)
               IN  /\ client' = built.built
                   /\ tasks' = issue_requests(birthdays, loadable, built.client)
                   /\ all_birthdays' = birthdays
                   /\ birthdays_today' = update_day(birthdays, now)
                   /\ pc' = "run"
    /\ UNCHANGED <<file, quiet, now, days>>

\* The clock passes midnight.
Midnight ==
    /\ pc # "exit"
    /\ days < MaxDays
    /\ now' = NextDay(now)
    /\ days' = days + 1
    /\ UNCHANGED <<pc, file, quiet, all_birthdays, birthdays_today, diagnostics, client, tasks>>

\* update(Message::UpdateDay(_)): the periodic tick of subscription().
UpdateDay ==
    /\ pc = "run"
    /\ birthdays_today' = update_day(all_birthdays, now)
    /\ UNCHANGED <<pc, file, quiet, now, days, all_birthdays, diagnostics, client, tasks>>

\* The future request_birthday_image of task t completes; its output becomes a
\* Message::DataReceived waiting for the event loop.
Resolve(t) ==
    /\ pc = "run"
    /\ t \in DOMAIN tasks
    /\ tasks[t].st = "pending"
    /\ \E net \in Networks :
        tasks' = [tasks EXCEPT ![t] =
                    [@ EXCEPT !.st = "ready", !.net = Some(net),
                              !.msg = Some(request_birthday_image(net, tasks[t].url))]]
    /\ UNCHANGED <<pc, file, quiet, now, days, all_birthdays, birthdays_today, diagnostics, client>>

\* update(Message::DataReceived(..)) that also recomputes the subset.
DataReceived_recompute(t) ==
    /\ pc = "run"
    /\ t \in DOMAIN tasks
    /\ tasks[t].st = "ready"
    /\ all_birthdays' = update_data(all_birthdays, tasks[t].msg[1][1], tasks[t].msg[1][2])
    /\ birthdays_today' = update_day(all_birthdays, now)
    /\ tasks' = [tasks EXCEPT ![t] = [@ EXCEPT !.st = "done", !.net = None, !.msg = None]]
    /\ UNCHANGED <<pc, file, quiet, now, days, diagnostics, client>>

\* update(Message::DataReceived(image_data, orig_url)) for the message of task t.
DataReceived(t) ==
    /\ pc = "run"
    /\ t \in DOMAIN tasks
    /\ tasks[t].st = "ready"
    /\ all_birthdays' = update_data(all_birthdays, tasks[t].msg[1][1], tasks[t].msg[1][2])
    /\ tasks' = [tasks EXCEPT ![t] = [@ EXCEPT !.st = "done", !.net = None, !.msg = None]]
    /\ UNCHANGED <<pc, file, quiet, now, days, birthdays_today, diagnostics, client>>

Next ==
    \/ new
    \/ Midnight
    \/ UpdateDay
    \/ \E t \in 1..MaxRows : Resolve(t)
    \/ \E t \in 1..MaxRows : DataReceived(t)

Spec == Init /\ [][Next]_vars

\* The executor polls every spawned future and the event loop handles every
\* message produced.
FairSpec ==
    /\ Spec
    /\ WF_vars(new)
    /\ \A t \in 1..MaxRows : WF_vars(Resolve(t)) /\ WF_vars(DataReceived(t))

----------------------------------------------------------------------------
\* Vocabulary of the properties.

Records == DOMAIN all_birthdays
Tasks == DOMAIN tasks

\* The records whose birthday has the day and the month of date.
TodayMatches(date) ==
    { i \in Records : /\ all_birthdays[i].birthday.day = date.day
                      /\ all_birthdays[i].birthday.month = date.month }

\* birthdays_today lists exactly the records matching the current date, once each.
SubsetIsExact ==
    /\ { birthdays_today[k] : k \in DOMAIN birthdays_today } = TodayMatches(now)
    /\ Len(birthdays_today) = Cardinality(TodayMatches(now))

\* The fields of a record that come from its row.
Static(b) == [last_name |-> b.last_name, birthday |-> b.birthday,
              gender |-> b.gender, image_url |-> b.image_url]

\* The rows of the file that decode, in file order, and the number that do not.
WellFormed(row) == IsOk(deserialize(row))
GoodRows == SelectSeq(file.rows, WellFormed)
BadRowCount == Len(file.rows) - Len(GoodRows)

\* Task t hands its message to update in this step.
Delivers(t) == t \in Tasks /\ tasks[t].st = "ready" /\ tasks'[t].st = "done"

\* The outcome a fetch must report for what the network did to it.
ExpectedOutcome(net, url) ==
    IF net.send /\ net.status /\ net.body THEN Ok(Handle(Bytes(url))) ELSE Err(Placeholder)

\* The records with an image_url.
WithUrl == { i \in Records : all_birthdays[i].image_url # None }

----------------------------------------------------------------------------
\* C1: after construction and after every UpdateDay tick the today-subset is
\* exactly the set of records whose birthday day and month equal those of the
\* current date, whatever their year.
C1_TodaySubsetExact ==
    [][ (new \/ UpdateDay) => (pc' = "run" => SubsetIsExact') ]_vars

\* A tick after midnight has selected a record born in another year and left
\* another record out.
C1_Witness ==
    /\ pc = "run"
    /\ days > 0
    /\ birthdays_today # <<>>
    /\ Len(birthdays_today) < Len(all_birthdays)
    /\ \A k \in DOMAIN birthdays_today :
        /\ all_birthdays[birthdays_today[k]].birthday.day = now.day
        /\ all_birthdays[birthdays_today[k]].birthday.month = now.month
        /\ all_birthdays[birthdays_today[k]].birthday.year # now.year

\* C2: handling DataReceived(result, url) sets the photo state of every record
\* whose URL is url to the result and leaves every other record's photo state
\* as it was.
C2_ResultAppliedToAllMatches ==
    [][ \A t \in Tasks : Delivers(t) =>
          \A i \in Records :
            all_birthdays'[i].image_data =
                IF all_birthdays[i].image_url = Some(tasks[t].msg[1][2])
                THEN Some(tasks[t].msg[1][1])
                ELSE all_birthdays[i].image_data ]_vars

\* Two records sharing a URL hold the same result while the second fetch for
\* that URL has not been delivered yet: one result was applied to both.
C2_Witness ==
    /\ pc = "run"
    /\ \E i, j \in Records :
        /\ i # j
        /\ all_birthdays[i].image_url = all_birthdays[j].image_url
        /\ all_birthdays[i].image_data # None
        /\ all_birthdays[i].image_data = all_birthdays[j].image_data
    /\ \E t \in Tasks : tasks[t].st = "done"
    /\ \E t \in Tasks : tasks[t].st # "done"

\* C3 as stated: a photo state, once set, is never set to anything else (it is
\* mutated exactly once), also for records sharing a URL.
C3_MutatedExactlyOnce ==
    [][ \A i \in Records :
          all_birthdays[i].image_data # None =>
              all_birthdays'[i].image_data = all_birthdays[i].image_data ]_vars

\* C3 as amended: a photo state changes only by the delivery of a fetch result
\* for the record's own URL, to that result (Loaded or Failed); it never
\* returns to Unloaded; and once set it changes no more when no other record
\* shares the URL.
C3_MutatedOnlyByOwnUrl ==
    [][ \A i \in Records :
          /\ all_birthdays'[i].image_data # all_birthdays[i].image_data =>
                \E t \in Tasks :
                    /\ Delivers(t)
                    /\ all_birthdays[i].image_url = Some(tasks[t].url)
                    /\ all_birthdays'[i].image_data = Some(tasks[t].msg[1][1])
                    /\ tasks[t].msg[1][1] \in {Ok(Handle(Bytes(tasks[t].url))), Err(Placeholder)}
          /\ all_birthdays[i].image_data # None => all_birthdays'[i].image_data # None
          /\ ( /\ all_birthdays[i].image_data # None
               /\ \A j \in Records \ {i} :
                    all_birthdays[j].image_url # all_birthdays[i].image_url )
             => all_birthdays'[i].image_data = all_birthdays[i].image_data ]_vars

\* Two fetches for one shared URL have both been delivered to a record.
C3_Witness ==
    /\ pc = "run"
    /\ \E i \in Records :
        /\ all_birthdays[i].image_data # None
        /\ Cardinality({ t \in Tasks : /\ Some(tasks[t].url) = all_birthdays[i].image_url
                                       /\ tasks[t].st = "done" }) = 2

\* C4: no fetch is issued for a record without a URL, and the photo state of
\* such a record is Unloaded in every reachable state.
C4_NoUrlStaysUnloaded ==
    \A i \in Records :
        all_birthdays[i].image_url = None =>
            /\ all_birthdays[i].image_data = None
            /\ \A t \in Tasks : tasks[t].rec # i

\* A record without a URL is still Unloaded after the fetch of another record
\* has been delivered.
C4_Witness ==
    /\ pc = "run"
    /\ \E i \in Records : all_birthdays[i].image_url = None /\ all_birthdays[i].image_data = None
    /\ \E j \in Records : all_birthdays[j].image_data # None
    /\ \A t \in Tasks : tasks[t].st = "done"

\* C5 as stated: once started, the fetches issued are exactly one for each
\* record with a URL (never more later), and without such records no client is
\* constructed and no fetch is issued.
C5_OneFetchPerUrlRecord ==
    pc = "run" =>
        /\ Len(tasks) = Cardinality(WithUrl)
        /\ \A i \in WithUrl :
            Cardinality({ t \in Tasks : tasks[t].rec = i /\ Some(tasks[t].url) = all_birthdays[i].image_url }) = 1
        /\ WithUrl = {} => client = "unbuilt"

\* C5 as amended: the same, provided the client could be constructed; when its
\* construction fails no fetch is issued at all.
C5_OneFetchPerUrlRecordIfClient ==
    /\ pc # "run" => tasks = <<>> /\ client = "unbuilt"
    /\ pc = "run" =>
        /\ WithUrl = {} <=> client = "unbuilt"
        /\ client # "built" => tasks = <<>>
        /\ client = "built" =>
            /\ Len(tasks) = Cardinality(WithUrl)
            /\ \A i \in WithUrl :
                Cardinality({ t \in Tasks : tasks[t].rec = i /\ Some(tasks[t].url) = all_birthdays[i].image_url }) = 1

\* Two records with the same URL have caused two fetches, both delivered, one
\* of them failed, and no further fetch exists.
C5_Witness ==
    /\ pc = "run"
    /\ client = "built"
    /\ Len(tasks) = 2
    /\ tasks[1].url = tasks[2].url
    /\ tasks[1].rec # tasks[2].rec
    /\ \A t \in Tasks : tasks[t].st = "done"
    /\ \E i \in Records : all_birthdays[i].image_data = Some(Err(Placeholder))

C7_ClientFailureDegrades ==
    /\ [](client = "failed" =>
            /\ pc = "run"
            /\ tasks = <<>>
            /\ \A i \in Records : all_birthdays[i].image_data = None)
    /\ [][ (client # "failed" /\ client' = "failed") => SubsetIsExact' ]_vars

\* The client failed, a record has a URL, and the run has gone on past
\* midnight and a tick.
C7_Witness ==
    /\ client = "failed"
    /\ WithUrl # {}
    /\ days > 0
    /\ birthdays_today # <<>>
    /\ SubsetIsExact

C10_EventsKeepTheirFrame ==
    [][ pc = "run" =>
          /\ (\E t \in Tasks : tasks'[t] # tasks[t]) => birthdays_today' = birthdays_today
          /\ birthdays_today' # birthdays_today =>
                \A i \in Records : all_birthdays'[i].image_data = all_birthdays[i].image_data
          /\ Len(all_birthdays') = Len(all_birthdays)
          /\ \A i \in Records : Static(all_birthdays'[i]) = Static(all_birthdays[i]) ]_vars

\* A fetch result has been handled in a day whose tick has not come yet: the
\* today-subset is still the one of the day before.
C10_Witness ==
    /\ pc = "run"
    /\ days > 0
    /\ \E t \in Tasks : tasks[t].st = "done"
    /\ birthdays_today # <<>>
    /\ ~SubsetIsExact

====
